---- MODULE Spec2Model ----
(***************************************************************************)
(* SpeedyMeet content script (src/contentScript.js, lines 1-427): the     *)
(* cross-tab coordination through chrome.storage.local, the bounded        *)
(* pollers of disableVideoAndMicConfig and the auto-join countdown.        *)
(*                                                                         *)
(* Strings the code inspects character by character (the pending path,    *)
(* location.href) are sequences of one-character strings; the origin      *)
(* 'https://meet.google.com/' is one token at the head of an href.         *)
(*                                                                         *)
(* The host page's DOM is not under the script's control: what a handler  *)
(* finds in it (call controls, a join button, a mute control) is an input *)
(* of the step that looks, and `last` records what it found.               *)
(***************************************************************************)
EXTENDS Integers, Sequences, FiniteSets, TLC

VARIABLES
    store,        \* chrome.storage.local: key -> value
    inbox,        \* storage.onChanged events in flight, per tab
    opens,        \* meeting links opened so far (background script)
    href,         \* PWA: window.location.href of the current document
    navPending,   \* PWA: href assigned to window.location.href, not yet loaded
    navFromAlert, \* PWA: that assignment was made with fromAlert true (history)
    startupTimer, \* PWA: the setTimeout(..., 1000) of the IIFE is pending
    alerts,       \* PWA: conflict alerts in the page, each with its captured path
    pendingGets,  \* PWA: chrome.storage.local.get callbacks not yet run
    pollers,      \* PWA: runInterval instances of the current document
    countdowns,   \* PWA: startAutoJoinCountdown instances of the current document
    overlays,     \* ordinary tab: redirect overlays in the page
    last          \* the step just taken and what it did (history)

vars == <<store, inbox, opens, href, navPending, navFromAlert, startupTimer,
          alerts, pendingGets, pollers, countdowns, overlays, last>>

----------------------------------------------------------------------------
(* Bounds of the model *)

MaxOpens == 2

\* meeting links opened while the timers of one page are followed
MaxTimerOpens == 1

----------------------------------------------------------------------------
(* Strings *)

Origin == <<"https://meet.google.com/">>
Sentinel == <<"__gmInitialState">>
QMark == <<"?">>
AuthUserEq == <<"a","u","t","h","u","s","e","r","=">>
QAuthUser0 == <<"?","a","u","t","h","u","s","e","r","=","0">>
AmpAuthUser0 == <<"&","a","u","t","h","u","s","e","r","=","0">>
Landing == <<"l","a","n","d","i","n","g">>
NoCode == <<>>
None == <<>>

PathA == <<"a","b","c","-","d","e","f","-","g","h","i">>
PathAAuth == PathA \o QAuthUser0
PathBQuery == <<"x","y","z","-","u","v","w","-","r","s","t","?","p","=","1">>
PathC == <<"j","k","l","-","m","n","o","-","p","q","r">>

Alnum ==
    {"a","b","c","d","e","f","g","h","i","j","k","l","m","n","o","p","q","r",
     "s","t","u","v","w","x","y","z","0","1","2","3","4","5","6","7","8","9",
     "A","B","C","D","E","F","G","H","I","J","K","L","M","N","O","P","Q","R",
     "S","T","U","V","W","X","Y","Z"}

\* String.prototype.includes
Includes(s, sub) ==
    \E i \in 1..(Len(s) - Len(sub) + 1) : SubSeq(s, i, i + Len(sub) - 1) = sub

\* number of consecutive [a-z0-9] characters (flag i) of s from position i on
RECURSIVE AlnumRun(_, _)
AlnumRun(s, i) ==
    IF i > Len(s) \/ s[i] \notin Alnum THEN 0 ELSE 1 + AlnumRun(s, i + 1)

DashAt(s, i) == i <= Len(s) /\ s[i] = "-"

\* the regex ([a-z0-9]{3,5}-[a-z0-9]{3,5}-[a-z0-9]{3,5}) matches at position i
RegexMatchesAt(s, i) ==
    LET a == AlnumRun(s, i)
        b == AlnumRun(s, i + a + 1)
        c == AlnumRun(s, i + a + b + 2)
    IN /\ a \in 3..5 /\ DashAt(s, i + a)
       /\ b \in 3..5 /\ DashAt(s, i + a + 1 + b)
       /\ c >= 3

RegexEndAt(s, i) ==
    LET a == AlnumRun(s, i)
        b == AlnumRun(s, i + a + 1)
        c == AlnumRun(s, i + a + b + 2)
    IN i + a + b + 1 + (IF c > 5 THEN 5 ELSE c)

\* String.prototype.match(meetingCodeRegex)[0]: the leftmost match, NoCode
\* for the `|| []` of a failed match (undefined)
MeetingCode(s) ==
    LET starts == {i \in 1..Len(s) : RegexMatchesAt(s, i)}
    IN IF starts = {} THEN NoCode
       ELSE LET i == CHOOSE j \in starts : \A k \in starts : j <= k
            IN SubSeq(s, i, RegexEndAt(s, i))

\* window.location.pathname of an href, without its leading '/'
RECURSIVE PathPrefix(_)
PathPrefix(s) ==
    IF s = <<>> \/ Head(s) \in {"?", "#"} THEN <<>>
    ELSE <<Head(s)>> \o PathPrefix(Tail(s))

Pathname(h) == PathPrefix(Tail(h))

\* variant: '?authuser=0' is appended whether or not the path has a query
NewQueryParamsNoAmp(newPath) ==
    IF Includes(newPath, AuthUserEq) THEN newPath ELSE newPath \o QAuthUser0

\* switchToNewCall: newQueryParams
NewQueryParams(newPath) ==
    IF Includes(newPath, QMark)
    THEN IF Includes(newPath, AuthUserEq) THEN newPath ELSE newPath \o AmpAuthUser0
    ELSE newPath \o QAuthUser0

\* switchToNewCall: newHref
NewHref(newPath) == Origin \o NewQueryParams(newPath)

----------------------------------------------------------------------------
(* The shared store and its change notifications *)

Tabs == {"pwa", "tab"}

\* JavaScript undefined for a numeric preference; a number n is <<n>>
Undefined == <<>>
Num(n) == <<n>>

\* NaN (parseInt of a text without a leading number): a value that is
\* neither Undefined nor any Num(n)
NaN == <<0, 0>>

\* id of the n-th tab that opened a meeting link
TabId(n) == <<"t1", "t2", "t3", "t4", "t5", "t6">>[n]

\* the keys of `changes` a tab's storage.onChanged listener looks at
Heard(t) ==
    IF t = "pwa" THEN {"queryParams"}
    ELSE {"originatingTabId", "googleMeetDeclinedUrl"}

\* new Date().toISOString(): a value that differs from the stamp it replaces
\* (only the parity of the number of writes is kept)
Stamp(old) == 1 - old

\* chrome.storage.local.set(partial) from any context: the values are
\* stored and one onChanged event carrying the new value of every key whose
\* value changed is dispatched to the listener of every tab.  An event with
\* none of the keys a listener looks at runs that listener to no effect and
\* is not queued for it.  w is the part of the state a handler works on.
StorageSet(w, partial) ==
    LET changed == {k \in DOMAIN partial : partial[k] # w.store[k]}
        change == [k \in changed |-> partial[k]]
    IN [w EXCEPT
          !.store = [k \in DOMAIN w.store |->
                        IF k \in DOMAIN partial THEN partial[k] ELSE w.store[k]],
          !.inbox = [t \in Tabs |->
                        IF changed \cap Heard(t) = {} THEN w.inbox[t]
                        ELSE Append(w.inbox[t], change)],
          !.wrote = @ \cup DOMAIN partial]

\* the state a handler of the PWA page starts from, and what it has done
World ==
    [store |-> store, inbox |-> inbox, nav |-> navPending,
     navAlert |-> navFromAlert, gets |-> pendingGets,
     alerts |-> alerts, wrote |-> {}, navigated |-> FALSE, polled |-> FALSE,
     alerted |-> FALSE, clicked |-> "none"]

\* the state a handler of the PWA page leaves
Commit(w) ==
    /\ store' = w.store
    /\ inbox' = w.inbox
    /\ navPending' = w.nav
    /\ navFromAlert' = w.navAlert
    /\ pendingGets' = w.gets
    /\ alerts' = w.alerts

\* the record of a step: the handler, the path it was about, what it found
\* in the DOM, what it did (keys written, location.href assigned,
\* disableVideoAndMicConfig called, alert or overlay added, control clicked),
\* and the timer instance it ran (as it left it)
Step(op, arg, saw, w, timer) ==
    [op |-> op, arg |-> arg, saw |-> saw, wrote |-> w.wrote,
     navigated |-> w.navigated, polled |-> w.polled, alerted |-> w.alerted,
     clicked |-> w.clicked, timer |-> timer]

----------------------------------------------------------------------------
(* contentScript.js: functions of the page script *)

\* variant: the reset on dismiss also clears the auto-join override
ignoreNewMeetingClearsOverride(w) ==
    StorageSet(w, [originatingTabId |-> "",
                   queryParams |-> Sentinel,
                   source |-> "",
                   googleMeetDeclinedUrl |-> Stamp(w.store.googleMeetDeclinedUrl),
                   shouldAutoJoinOverride |-> FALSE])

\* variant: the reset on dismiss also switches auto-join off
ignoreNewMeetingResetsAutoJoin(w) ==
    StorageSet(w, [originatingTabId |-> "",
                   queryParams |-> Sentinel,
                   source |-> "",
                   googleMeetDeclinedUrl |-> Stamp(w.store.googleMeetDeclinedUrl),
                   autoJoin |-> FALSE])

closeOriginalTab(w) ==
    StorageSet(w, [googleMeetOpenedUrl |-> Stamp(w.store.googleMeetOpenedUrl)])

\* variant: the reset writes no decline timestamp
ignoreNewMeetingNoStamp(w) ==
    StorageSet(w, [originatingTabId |-> "",
                   queryParams |-> Sentinel,
                   source |-> ""])

\* variant: the reset on dismiss writes the empty string as queryParams
ignoreNewMeetingEmptyReset(w) ==
    StorageSet(w, [originatingTabId |-> "",
                   queryParams |-> <<>>,
                   source |-> "",
                   googleMeetDeclinedUrl |-> Stamp(w.store.googleMeetDeclinedUrl)])

ignoreNewMeeting(w) ==
    StorageSet(w, [originatingTabId |-> "",
                   queryParams |-> Sentinel,
                   source |-> "",
                   googleMeetDeclinedUrl |-> Stamp(w.store.googleMeetDeclinedUrl)])

\* disableVideoAndMicConfig(joiningNewMeeting): only issues the storage read;
\* its callback is GetCallback below
disableVideoAndMicConfig(w, joiningNewMeeting) ==
    [w EXCEPT !.gets = Append(@, joiningNewMeeting), !.polled = TRUE]

\* the `if (currentHref !== newHref)` block of switchToNewCall
Navigate(w, newPath, fromAlert) ==
    LET a == closeOriginalTab(w)
        b == IF fromAlert
             THEN StorageSet(a, [shouldAutoJoinOverride |-> TRUE])
             ELSE a
    IN [b EXCEPT !.nav = NewHref(newPath), !.navAlert = fromAlert,
                 !.navigated = TRUE]

\* variant: the href comparison is missing and the location is always assigned
switchToNewCallAlways(w, newPath, fromAlert) ==
    disableVideoAndMicConfig(closeOriginalTab(Navigate(w, newPath, fromAlert)), TRUE)

\* variant: the close signal and the polling are inside the href comparison
switchToNewCallOnlyIfNew(w, newPath, fromAlert) ==
    IF href # NewHref(newPath)
    THEN disableVideoAndMicConfig(closeOriginalTab(Navigate(w, newPath, fromAlert)), TRUE)
    ELSE w

switchToNewCall(w, newPath, fromAlert) ==
    LET currentHref == href
        newHref == NewHref(newPath)
        w1 == IF currentHref # newHref THEN Navigate(w, newPath, fromAlert) ELSE w
        w2 == closeOriginalTab(w1)
    IN disableVideoAndMicConfig(w2, TRUE)

\* document.body.prepend(buildNextMeetingAlert(...)): the alert keeps the
\* `changes` of the notification that created it
PrependAlert(w, newPath) ==
    [w EXCEPT !.alerts = <<newPath>> \o @, !.alerted = TRUE]

\* variant: the test of the current meeting code is inverted
OnCallNegated(callControls) == MeetingCode(Pathname(href)) = NoCode /\ callControls

\* onCall of the PWA listener; callControls: whether
\* document.querySelector('[aria-label="Call controls"]') finds an element
OnCall(callControls) == MeetingCode(Pathname(href)) # NoCode /\ callControls

\* variant: the listener does not compare the new value with the sentinel
PwaListenerNoSentinelGuard(w, changes, callControls) ==
    IF "queryParams" \in DOMAIN changes
    THEN LET currentMeetingCode == MeetingCode(Pathname(href))
             newMeetingCode == MeetingCode(changes.queryParams)
             onCall == OnCall(callControls)
         IN IF onCall /\ newMeetingCode = currentMeetingCode
            THEN closeOriginalTab(w)
            ELSE IF onCall
                 THEN closeOriginalTab(PrependAlert(w, changes.queryParams))
                 ELSE switchToNewCall(w, changes.queryParams, FALSE)
    ELSE w

\* variant: the listener has no same-meeting branch
PwaListenerNoSameCheck(w, changes, callControls) ==
    IF "queryParams" \in DOMAIN changes /\ changes.queryParams # Sentinel
    THEN IF OnCall(callControls)
         THEN closeOriginalTab(PrependAlert(w, changes.queryParams))
         ELSE switchToNewCall(w, changes.queryParams, FALSE)
    ELSE w

\* the PWA's storage.onChanged listener
PwaListener(w, changes, callControls) ==
    IF "queryParams" \in DOMAIN changes /\ changes.queryParams # Sentinel
    THEN LET currentMeetingCode == MeetingCode(Pathname(href))
             newMeetingCode == MeetingCode(changes.queryParams)
             onCall == OnCall(callControls)
         IN IF onCall /\ newMeetingCode = currentMeetingCode
            THEN closeOriginalTab(w)
            ELSE IF onCall
                 THEN closeOriginalTab(PrependAlert(w, changes.queryParams))
                 ELSE switchToNewCall(w, changes.queryParams, FALSE)
    ELSE w

\* variant: the new value of originatingTabId is not tested
AddsOverlayOnAnyChange(changes) == "originatingTabId" \in DOMAIN changes

\* the ordinary tab's listener appends an overlay
AddsOverlay(changes) ==
    "originatingTabId" \in DOMAIN changes /\ changes.originatingTabId # ""

\* the ordinary tab's storage.onChanged listener, n the overlays in the page
TabListener(n, changes) ==
    LET added == IF AddsOverlay(changes) THEN n + 1 ELSE n
    IN IF "googleMeetDeclinedUrl" \in DOMAIN changes /\ added > 0
       THEN added - 1 ELSE added

----------------------------------------------------------------------------
(* contentScript.js: bounded pollers (runInterval) *)

IntervalMs == 300
TimeoutMs == 15000
DefaultDuration == 10
AnnounceEvery == 5

\* a falsy numeric preference: undefined, NaN or 0
Falsy(v) == v = Undefined \/ v = NaN \/ v = Num(0)

\* one call of runInterval: the interval is set (active) and what fn has
\* clicked; duration is the countdownDuration an autoJoin poller captured
NewPoller(kind, duration) ==
    [kind |-> kind, active |-> TRUE, clicks |-> 0, duration |-> duration]

\* variant: the camera poller is started inside the microphone branch
StartedPollersNested(res, joiningNewMeeting) ==
    (IF res.disableMic
     THEN <<NewPoller("mic", 0)>>
          \o (IF res.disableVideo THEN <<NewPoller("video", 0)>> ELSE <<>>)
     ELSE <<>>)
    \o (IF joiningNewMeeting
        THEN IF res.shouldAutoJoinOverride
             THEN <<NewPoller("override", 0)>>
             ELSE IF res.autoJoin
                  THEN <<NewPoller("autoJoin",
                                   IF Falsy(res.countdownDuration)
                                   THEN DefaultDuration
                                   ELSE res.countdownDuration[1])>>
                  ELSE <<>>
        ELSE <<>>)

\* variant: the autoJoin branch is not the else of the override branch
StartedPollersBoth(res, joiningNewMeeting) ==
    (IF res.disableMic THEN <<NewPoller("mic", 0)>> ELSE <<>>)
    \o (IF res.disableVideo THEN <<NewPoller("video", 0)>> ELSE <<>>)
    \o (IF joiningNewMeeting /\ res.shouldAutoJoinOverride
        THEN <<NewPoller("override", 0)>> ELSE <<>>)
    \o (IF joiningNewMeeting /\ res.autoJoin
        THEN <<NewPoller("autoJoin",
                         IF Falsy(res.countdownDuration)
                         THEN DefaultDuration
                         ELSE res.countdownDuration[1])>>
        ELSE <<>>)

\* the callback of chrome.storage.local.get in disableVideoAndMicConfig:
\* the pollers it starts, in order, for the values res read from the store
StartedPollers(res, joiningNewMeeting) ==
    (IF res.disableMic THEN <<NewPoller("mic", 0)>> ELSE <<>>)
    \o (IF res.disableVideo THEN <<NewPoller("video", 0)>> ELSE <<>>)
    \o (IF joiningNewMeeting
        THEN IF res.shouldAutoJoinOverride
             THEN <<NewPoller("override", 0)>>
             ELSE IF res.autoJoin
                  THEN <<NewPoller("autoJoin",
                                   IF Falsy(res.countdownDuration)
                                   THEN DefaultDuration
                                   ELSE res.countdownDuration[1])>>
                  ELSE <<>>
        ELSE <<>>)

\* fn() of a poller returns true: found says whether its querySelector (mic,
\* video) or findJoinButton() (override, autoJoin) finds its control
Done(kind, found) ==
    IF kind \in {"mic", "video"} THEN found
    ELSE found /\ Pathname(href) # Landing

\* the control fn() clicks when it returns true
ClickOf(kind) ==
    CASE kind = "mic" -> "mic"
      [] kind = "video" -> "camera"
      [] kind = "override" -> "join"
      [] OTHER -> "none"

\* variant: the interval is cleared when fn() is done only, not on the timeout
AfterTickNoTimeout(p, done, now) ==
    [p EXCEPT !.clicks = IF done /\ ClickOf(p.kind) # "none" THEN @ + 1 ELSE @,
              !.active = ~done]

\* variant: the interval is cleared on the timeout only, not when fn() is done
AfterTickNoStop(p, done, now) ==
    [p EXCEPT !.clicks = IF done /\ ClickOf(p.kind) # "none" THEN @ + 1 ELSE @,
              !.active = ~(now > TimeoutMs)]

\* the setInterval callback of runInterval, done being fn()'s result and
\* now the value of Date.now() - start at this tick
AfterTick(p, done, now) ==
    [p EXCEPT !.clicks = IF done /\ ClickOf(p.kind) # "none" THEN @ + 1 ELSE @,
              !.active = ~(done \/ now > TimeoutMs)]

\* values of Date.now() - start a tick may see: the first tick on time, a
\* tick exactly at the timeout, and a tick after it
Times == {IntervalMs, TimeoutMs, TimeoutMs + IntervalMs}

\* the instances whose interval has not been cleared
Running(timers) == SelectSeq(timers, LAMBDA t : t.active)

----------------------------------------------------------------------------
(* contentScript.js: startAutoJoinCountdown *)

Digit(n) == <<"0","1","2","3","4","5","6","7","8","9">>[n + 1]

\* the decimal text of an integer, as a template literal formats it
RECURSIVE NumberText(_)
NumberText(n) ==
    IF n < 0 THEN <<"-">> \o NumberText(0 - n)
    ELSE IF n < 10 THEN <<Digit(n)>>
    ELSE NumberText(n \div 10) \o <<Digit(n % 10)>>

StartText(n) == <<"Auto-joining meeting in ">> \o NumberText(n) \o <<" seconds">>
TickText(n) == <<"Auto-joining in ">> \o NumberText(n) \o <<" seconds">>
JoiningText == <<"Joining meeting now">>
CancelledText == <<"Auto-join cancelled">>

\* variant: a failed SPEAK_TEXT message is sent again
SpeakCallbackRetries(cd, lastError) ==
    IF lastError
    THEN [cd EXCEPT !.said = Append(@, @[Len(@)])]
    ELSE [cd EXCEPT !.unanswered = @ - 1]

\* the response callback of speakText: it logs, whether chrome.runtime
\* .lastError is set or not
SpeakCallback(cd, lastError) == [cd EXCEPT !.unanswered = @ - 1]

\* speakText(text) called by the countdown cd: one SPEAK_TEXT message is sent
speakText(cd, text) ==
    [cd EXCEPT !.said = Append(@, text), !.unanswered = @ + 1]

\* the state of one call of startAutoJoinCountdown that found a join button:
\* its locals countdown and countdownInterval (active), its two elements
\* (shown), and what it has spoken and clicked.  steady: a join control was
\* in the page at every tick of this countdown so far (history).
\* unanswered: the SPEAK_TEXT messages it sent whose response callback has
\* not run yet.
NewCountdown(duration) ==
    speakText([duration |-> duration, countdown |-> duration, active |-> TRUE,
               shown |-> TRUE, said |-> <<>>, unanswered |-> 0, clicks |-> 0,
               cancelled |-> FALSE, steady |-> TRUE],
              StartText(duration))

startAutoJoinCountdown(cds, duration, joinBtn) ==
    IF ~joinBtn THEN cds ELSE Append(cds, NewCountdown(duration))

\* variant: cleanup itself announces the cancellation
cleanupAnnounces(cd) ==
    speakText([cd EXCEPT !.active = FALSE, !.shown = FALSE], CancelledText)

\* variant: cleanup removes the elements and leaves the interval set
cleanupKeepsInterval(cd) == [cd EXCEPT !.shown = FALSE]

cleanup(cd) == [cd EXCEPT !.active = FALSE, !.shown = FALSE]

\* cancelButton.onclick
CancelHandler(cd) ==
    cleanup(speakText([cd EXCEPT !.cancelled = TRUE], CancelledText))

\* `if (countdown % 5 === 0)`
Announces(n) == n % AnnounceEvery = 0

\* variant: the countdown completes when it is exactly zero
CountdownCallbackUntilZero(cd, joinBtn) ==
    LET n == cd.countdown - 1
        c == [cd EXCEPT !.countdown = n]
    IN IF n # 0
       THEN IF ~c.shown /\ ~joinBtn
            THEN cleanup([c EXCEPT !.steady = FALSE])
            ELSE LET t == [c EXCEPT !.shown = TRUE, !.steady = @ /\ joinBtn]
                 IN IF Announces(n) THEN speakText(t, TickText(n)) ELSE t
       ELSE LET d == cleanup(speakText(c, JoiningText))
            IN [d EXCEPT !.clicks = IF joinBtn THEN @ + 1 ELSE @,
                         !.steady = @ /\ joinBtn]

\* variant: a tick that cannot re-add the elements goes on counting
CountdownCallbackNoAbort(cd, joinBtn) ==
    LET n == cd.countdown - 1
        c == [cd EXCEPT !.countdown = n]
    IN IF n > 0
       THEN LET t == [c EXCEPT !.shown = @ \/ joinBtn, !.steady = @ /\ joinBtn]
            IN IF Announces(n) THEN speakText(t, TickText(n)) ELSE t
       ELSE LET d == cleanup(speakText(c, JoiningText))
            IN [d EXCEPT !.clicks = IF joinBtn THEN @ + 1 ELSE @,
                         !.steady = @ /\ joinBtn]

\* variant: at zero the button found when the countdown started is clicked
CountdownCallbackStaleButton(cd, joinBtn) ==
    LET n == cd.countdown - 1
        c == [cd EXCEPT !.countdown = n]
    IN IF n > 0
       THEN IF ~c.shown /\ ~joinBtn
            THEN cleanup([c EXCEPT !.steady = FALSE])
            ELSE LET t == [c EXCEPT !.shown = TRUE, !.steady = @ /\ joinBtn]
                 IN IF Announces(n) THEN speakText(t, TickText(n)) ELSE t
       ELSE LET d == cleanup(speakText(c, JoiningText))
            IN [d EXCEPT !.clicks = @ + 1, !.steady = @ /\ joinBtn]

\* the setInterval callback of the countdown; joinBtn: whether
\* findJoinButton() finds a join control at this tick
CountdownCallback(cd, joinBtn) ==
    LET n == cd.countdown - 1
        c == [cd EXCEPT !.countdown = n]
    IN IF n > 0
       THEN IF ~c.shown /\ ~joinBtn
            THEN cleanup([c EXCEPT !.steady = FALSE])
            ELSE LET t == [c EXCEPT !.shown = TRUE, !.steady = @ /\ joinBtn]
                 IN IF Announces(n) THEN speakText(t, TickText(n)) ELSE t
       ELSE LET d == cleanup(speakText(c, JoiningText))
            IN [d EXCEPT !.clicks = IF joinBtn THEN @ + 1 ELSE @,
                         !.steady = @ /\ joinBtn]

----------------------------------------------------------------------------
(* popup script (src/unnamed/part_001): the number inputs of the Settings UI *)

DigitChars == {"0","1","2","3","4","5","6","7","8","9"}

DigitValue(ch) == CHOOSE n \in 0..9 : Digit(n) = ch

\* parseInt skips leading white space
RECURSIVE TrimStart(_)
TrimStart(s) == IF s # <<>> /\ Head(s) = " " THEN TrimStart(Tail(s)) ELSE s

\* the value of the leading run of decimal digits of s, acc being the value
\* of the digits read so far
RECURSIVE DigitsValue(_, _)
DigitsValue(s, acc) ==
    IF s = <<>> \/ Head(s) \notin DigitChars THEN acc
    ELSE DigitsValue(Tail(s), 10 * acc + DigitValue(Head(s)))

\* parseInt(text, 10): optional sign, then the leading digits; NaN if none
ParseInt(text) ==
    LET t == TrimStart(text)
        signed == t # <<>> /\ Head(t) \in {"-", "+"}
        digits == IF signed THEN Tail(t) ELSE t
    IN IF digits = <<>> \/ Head(digits) \notin DigitChars THEN NaN
       ELSE IF signed /\ Head(t) = "-"
            THEN Num(0 - DigitsValue(digits, 0))
            ELSE Num(DigitsValue(digits, 0))

MinInterval == 1
MaxInterval == 30

\* variant: the upper limit is not applied
ClampIntervalNoUpper(v) ==
    IF v = NaN \/ v[1] < MinInterval THEN Num(MinInterval) ELSE v

\* `if (isNaN(v) || v < 1) v = 1; if (v > 30) v = 30;`
ClampInterval(v) ==
    LET v1 == IF v = NaN \/ v[1] < MinInterval THEN Num(MinInterval) ELSE v
    IN IF v1[1] > MaxInterval THEN Num(MaxInterval) ELSE v1

\* texts the user leaves in a number input
InputTexts ==
    {<<>>,
     <<"a", "b", "c">>,
     <<"0">>,
     <<"-", "5">>,
     <<"7">>,
     <<"3", "0">>,
     <<"3", "1">>,
     <<"9", "9", "9", "9", "9", "9">>,
     <<"1", "2", "p", "x">>,
     <<" ", "8">>,
     <<"1">>,
     <<"3", ".", "7">>}

----------------------------------------------------------------------------
(* Initial state *)

PendingPaths == {PathA, PathAAuth, PathBQuery}

\* pending meetings other than the one the PWA is on
ConflictPaths == {PathBQuery, PathC}

InitHrefs == {Origin \o Landing, Origin \o PathAAuth}

\* preferences the Settings UI has stored before the page script runs
Prefs(mic, video, auto, duration, interval) ==
    [disableMic |-> mic, disableVideo |-> video, autoJoin |-> auto,
     countdownDuration |-> duration, ttsAnnouncementInterval |-> interval]

NoPrefs == {Prefs(FALSE, FALSE, FALSE, Undefined, Undefined)}

MutePrefs ==
    {Prefs(TRUE, FALSE, FALSE, Undefined, Undefined),
     Prefs(FALSE, TRUE, FALSE, Undefined, Undefined),
     Prefs(TRUE, TRUE, FALSE, Undefined, Undefined)}

AutoJoinPrefs ==
    {Prefs(FALSE, FALSE, TRUE, Num(3), Num(1)),
     Prefs(FALSE, FALSE, TRUE, Undefined, Num(5))}

\* auto-join set, with the values the duration input can have stored
DurationPrefs ==
    {Prefs(FALSE, FALSE, TRUE, d, Undefined) :
        d \in {Undefined, NaN, Num(0), Num(0 - 2), Num(1), Num(2)}}

InitialStore(prefs) ==
    [queryParams |-> Sentinel, originatingTabId |-> "", source |-> "",
     googleMeetOpenedUrl |-> 0, googleMeetDeclinedUrl |-> 0,
     shouldAutoJoinOverride |-> FALSE,
     disableMic |-> prefs.disableMic, disableVideo |-> prefs.disableVideo,
     autoJoin |-> prefs.autoJoin, countdownDuration |-> prefs.countdownDuration,
     ttsAnnouncementInterval |-> prefs.ttsAnnouncementInterval]

NoStep ==
    [op |-> "init", arg |-> None, saw |-> FALSE, wrote |-> {},
     navigated |-> FALSE, polled |-> FALSE, alerted |-> FALSE,
     clicked |-> "none", timer |-> None]

\* every preference set
TimerPrefs == {Prefs(TRUE, TRUE, TRUE, Num(3), Num(5))}

\* the store a page script finds when it starts: the preferences, and the
\* override flag as a click on 'Switch to meeting' may have left it
StartStores(prefs) ==
    {[InitialStore(p) EXCEPT !.shouldAutoJoinOverride = o] :
        p \in prefs, o \in BOOLEAN}

InitFrom(stores, hrefs) ==
    /\ store \in stores
    /\ inbox = [t \in Tabs |-> <<>>]
    /\ opens = 0
    /\ href \in hrefs
    /\ navPending = None
    /\ navFromAlert = FALSE
    /\ startupTimer = TRUE
    /\ alerts = <<>>
    /\ pendingGets = <<>>
    /\ pollers = <<>>
    /\ countdowns = <<>>
    /\ overlays = 0
    /\ last = NoStep

InitWith(prefs, hrefs) == InitFrom({InitialStore(p) : p \in prefs}, hrefs)

\* no preference set; the PWA on the landing page or in a meeting
Init == InitWith(NoPrefs, InitHrefs)

\* auto-mute preferences set; the PWA on a meeting page
InitMute == InitWith(MutePrefs, {Origin \o PathAAuth})

\* auto-join set; the PWA on a meeting page
InitCountdown == InitWith(AutoJoinPrefs, {Origin \o PathAAuth})

\* auto-join set with each stored duration; the PWA on a meeting page
InitSpeech == InitWith(DurationPrefs, {Origin \o PathAAuth})

\* every preference set, the override flag set or not; the PWA on the
\* landing page or in a meeting
InitTimers == InitFrom(StartStores(TimerPrefs), InitHrefs)

----------------------------------------------------------------------------
(* Actions *)

RemoveAt(seq, i) == SubSeq(seq, 1, i - 1) \o SubSeq(seq, i + 1, Len(seq))

\* background script: a tab opened a meeting link and the pending meeting is
\* written to the store
OpenMeetingLink(path) ==
    /\ opens < MaxOpens
    /\ opens' = opens + 1
    /\ LET w == StorageSet(World, [queryParams |-> path,
                                   originatingTabId |-> TabId(opens + 1),
                                   source |-> "NEW_MEETING"])
       IN /\ store' = w.store
          /\ inbox' = w.inbox
          /\ last' = Step("OpenMeetingLink", path, FALSE, w, None)
    /\ UNCHANGED <<href, navPending, navFromAlert, startupTimer, alerts,
                   pendingGets, pollers, countdowns, overlays>>

\* PWA: one storage.onChanged event is handled by the listener
PwaOnChanged(callControls) ==
    /\ inbox["pwa"] # <<>>
    /\ LET changes == Head(inbox["pwa"])
           w0 == [World EXCEPT !.inbox["pwa"] = Tail(@)]
           w == PwaListener(w0, changes, callControls)
       IN /\ Commit(w)
          /\ last' = Step("PwaOnChanged", changes.queryParams, callControls, w, None)
    /\ UNCHANGED <<opens, href, startupTimer, pollers, countdowns, overlays>>

\* variant: the click switches to the pending meeting now in the store
SwitchClickStoreValue(k) ==
    /\ k \in 1..Len(alerts)
    /\ LET w0 == switchToNewCall(World, store.queryParams, TRUE)
           w == [w0 EXCEPT !.alerts = RemoveAt(@, k)]
       IN /\ Commit(w)
          /\ last' = Step("SwitchClick", alerts[k], FALSE, w, None)
    /\ UNCHANGED <<opens, href, startupTimer, pollers, countdowns, overlays>>

\* PWA: switchBtn.onclick of the k-th alert
SwitchClick(k) ==
    /\ k \in 1..Len(alerts)
    /\ LET w0 == switchToNewCall(World, alerts[k], TRUE)
           w == [w0 EXCEPT !.alerts = RemoveAt(@, k)]
       IN /\ Commit(w)
          /\ last' = Step("SwitchClick", alerts[k], FALSE, w, None)
    /\ UNCHANGED <<opens, href, startupTimer, pollers, countdowns, overlays>>

\* PWA: dismissBtn.onclick of the k-th alert
DismissClick(k) ==
    /\ k \in 1..Len(alerts)
    /\ LET w0 == ignoreNewMeeting(World)
           w == [w0 EXCEPT !.alerts = RemoveAt(@, k)]
       IN /\ Commit(w)
          /\ last' = Step("DismissClick", alerts[k], FALSE, w, None)
    /\ UNCHANGED <<opens, href, startupTimer, pollers, countdowns, overlays>>

\* PWA: the setTimeout callback of the IIFE; callControls: whether call
\* controls are in the page when it runs (the callback does not look)
StartupCheck(callControls) ==
    /\ startupTimer
    /\ startupTimer' = FALSE
    /\ LET w == disableVideoAndMicConfig(World, Pathname(href) # Landing)
       IN /\ Commit(w)
          /\ last' = Step("StartupCheck", None, callControls, w, None)
    /\ UNCHANGED <<opens, href, pollers, countdowns, overlays>>

\* PWA: the document assigned to window.location.href replaces the current
\* one; the page script starts anew in it and every timer, callback and
\* element of the old document is gone
PageLoad ==
    /\ navPending # None
    /\ href' = navPending
    /\ navPending' = None
    /\ navFromAlert' = FALSE
    /\ startupTimer' = TRUE
    /\ alerts' = <<>>
    /\ pendingGets' = <<>>
    /\ pollers' = <<>>
    /\ countdowns' = <<>>
    /\ last' = [NoStep EXCEPT !.op = "PageLoad"]
    /\ UNCHANGED <<store, inbox, opens, overlays>>

\* ordinary tab: one storage.onChanged event is handled by the listener
TabOnChanged ==
    /\ inbox["tab"] # <<>>
    /\ overlays' = TabListener(overlays, Head(inbox["tab"]))
    /\ inbox' = [inbox EXCEPT !["tab"] = Tail(@)]
    /\ last' = [NoStep EXCEPT !.op = "TabOnChanged",
                  !.arg = IF "queryParams" \in DOMAIN Head(inbox["tab"])
                          THEN Head(inbox["tab"]).queryParams ELSE None,
                  !.alerted = AddsOverlay(Head(inbox["tab"]))]
    /\ UNCHANGED <<store, opens, href, navPending, navFromAlert, startupTimer, alerts,
                   pendingGets, pollers, countdowns>>

\* ordinary tab: dismissOverlay of one overlay
OverlayDismiss ==
    /\ overlays > 0
    /\ overlays' = overlays - 1
    /\ last' = [NoStep EXCEPT !.op = "OverlayDismiss"]
    /\ UNCHANGED <<store, inbox, opens, href, navPending, navFromAlert, startupTimer,
                   alerts, pendingGets, pollers, countdowns>>

\* PWA: the callback of chrome.storage.local.get in disableVideoAndMicConfig
GetCallback ==
    /\ pendingGets # <<>>
    /\ pendingGets' = Tail(pendingGets)
    /\ pollers' = pollers \o StartedPollers(store, Head(pendingGets))
    /\ last' = [NoStep EXCEPT !.op = "GetCallback"]
    /\ UNCHANGED <<store, inbox, opens, href, navPending, navFromAlert, startupTimer,
                   alerts, countdowns, overlays>>

\* PWA: the i-th poller's interval fires, `now` ms after the poller started
PollerTick(i, now, found) ==
    /\ i \in 1..Len(pollers)
    /\ LET p == pollers[i]
           done == Done(p.kind, found)
           q == AfterTick(p, done, now)
           w0 == IF done /\ p.kind = "override"
                 THEN StorageSet(World, [shouldAutoJoinOverride |-> FALSE])
                 ELSE World
           w == [w0 EXCEPT !.clicked = IF done THEN ClickOf(p.kind) ELSE "none"]
       IN /\ pollers' = Running([pollers EXCEPT ![i] = q])
          /\ countdowns' = IF done /\ p.kind = "autoJoin"
                           THEN startAutoJoinCountdown(countdowns, p.duration, found)
                           ELSE countdowns
          /\ Commit(w)
          /\ last' = Step("PollerTick", None, found, w,
                          [kind |-> q.kind, now |-> now, active |-> q.active,
                           clicks |-> q.clicks])
    /\ UNCHANGED <<opens, href, startupTimer, overlays>>

\* PWA: the i-th countdown's one-second interval fires
CountdownTick(i, joinBtn) ==
    /\ i \in 1..Len(countdowns)
    /\ LET cd == CountdownCallback(countdowns[i], joinBtn)
       IN /\ countdowns' = Running([countdowns EXCEPT ![i] = cd])
          /\ last' = [NoStep EXCEPT !.op = "CountdownTick",
                         !.saw = joinBtn,
                         !.clicked = IF cd.clicks > countdowns[i].clicks
                                     THEN "join" ELSE "none",
                         !.timer = cd]
    /\ UNCHANGED <<store, inbox, opens, href, navPending, navFromAlert, startupTimer,
                   alerts, pendingGets, pollers, overlays>>

\* PWA: the user clicks the i-th countdown's 'Cancel Auto-Join' button
CancelClick(i) ==
    /\ i \in 1..Len(countdowns)
    /\ countdowns[i].shown
    /\ LET cd == CancelHandler(countdowns[i])
       IN /\ countdowns' = Running([countdowns EXCEPT ![i] = cd])
          /\ last' = [NoStep EXCEPT !.op = "CancelClick", !.timer = cd]
    /\ UNCHANGED <<store, inbox, opens, href, navPending, navFromAlert, startupTimer,
                   alerts, pendingGets, pollers, overlays>>

\* PWA: the response callback of a SPEAK_TEXT message the i-th countdown
\* sent runs; lastError: chrome.runtime.lastError is set (the relay failed).
\* The callbacks of a countdown that is no longer running are not followed.
RelayResponse(i, lastError) ==
    /\ i \in 1..Len(countdowns)
    /\ countdowns[i].unanswered > 0
    /\ LET cd == SpeakCallback(countdowns[i], lastError)
       IN /\ countdowns' = Running([countdowns EXCEPT ![i] = cd])
          /\ last' = [NoStep EXCEPT !.op = "RelayResponse", !.saw = lastError,
                                    !.timer = cd]
    /\ UNCHANGED <<store, inbox, opens, href, navPending, navFromAlert, startupTimer,
                   alerts, pendingGets, pollers, overlays>>

\* popup: the change listener of the announcement-interval input
TtsIntervalChange(text) ==
    /\ LET v == ClampInterval(ParseInt(text))
           w == StorageSet(World, [ttsAnnouncementInterval |-> v])
       IN /\ store' = w.store
          /\ inbox' = w.inbox
          /\ last' = Step("TtsIntervalChange", text, FALSE, w, None)
    /\ UNCHANGED <<opens, href, navPending, navFromAlert, startupTimer, alerts,
                   pendingGets, pollers, countdowns, overlays>>

\* popup: the change listener of the countdown-duration input
CountdownDurationChange(text) ==
    /\ LET duration == ParseInt(text)
           w == StorageSet(World, [countdownDuration |-> duration])
       IN /\ store' = w.store
          /\ inbox' = w.inbox
          /\ last' = Step("CountdownDurationChange", text, FALSE, w, None)
    /\ UNCHANGED <<opens, href, navPending, navFromAlert, startupTimer, alerts,
                   pendingGets, pollers, countdowns, overlays>>

\* host page: a re-render removes or hides the i-th countdown's elements
HostRerender(i) ==
    /\ i \in 1..Len(countdowns)
    /\ countdowns[i].shown
    /\ countdowns' = [countdowns EXCEPT ![i].shown = FALSE]
    /\ last' = [NoStep EXCEPT !.op = "HostRerender"]
    /\ UNCHANGED <<store, inbox, opens, href, navPending, navFromAlert, startupTimer,
                   alerts, pendingGets, pollers, overlays>>

\* the steps of the tabs and of the timers every page starts
Coordination ==
    \/ \E callControls \in BOOLEAN : PwaOnChanged(callControls)
    \/ \E callControls \in BOOLEAN : StartupCheck(callControls)
    \/ TabOnChanged
    \/ OverlayDismiss
    \/ GetCallback
    \/ \E i \in 1..Len(pollers), now \in Times, found \in BOOLEAN :
          PollerTick(i, now, found)

Next ==
    \/ \E path \in PendingPaths : OpenMeetingLink(path)
    \/ \E k \in 1..Len(alerts) : SwitchClick(k)
    \/ \E k \in 1..Len(alerts) : DismissClick(k)
    \/ PageLoad
    \/ Coordination

\* links to the meeting the PWA is on are opened
NextMute ==
    \/ OpenMeetingLink(PathA)
    \/ Coordination

NextCountdown ==
    \/ OpenMeetingLink(PathA)
    \/ Coordination
    \/ \E i \in 1..Len(countdowns), joinBtn \in BOOLEAN : CountdownTick(i, joinBtn)
    \/ \E i \in 1..Len(countdowns) : CancelClick(i)
    \/ \E i \in 1..Len(countdowns) : HostRerender(i)

Spec == Init /\ [][Next]_vars

SpecMute == InitMute /\ [][NextMute]_vars

SpecCountdown == InitCountdown /\ [][NextCountdown]_vars

\* one page of the PWA, its countdown and the responses of the speech relay
NextSpeech ==
    \/ \E callControls \in BOOLEAN : StartupCheck(callControls)
    \/ GetCallback
    \/ \E i \in 1..Len(pollers), now \in Times, found \in BOOLEAN :
          PollerTick(i, now, found)
    \/ \E i \in 1..Len(countdowns), joinBtn \in BOOLEAN : CountdownTick(i, joinBtn)
    \/ \E i \in 1..Len(countdowns) : CancelClick(i)
    \/ \E i \in 1..Len(countdowns) : HostRerender(i)
    \/ \E i \in 1..Len(countdowns), lastError \in BOOLEAN : RelayResponse(i, lastError)

SpecSpeech == InitSpeech /\ [][NextSpeech]_vars

\* the Settings UI: edits of the two number inputs
NextSettings ==
    \/ \E text \in InputTexts : TtsIntervalChange(text)
    \/ \E text \in InputTexts : CountdownDurationChange(text)

SpecSettings == Init /\ [][NextSettings]_vars

\* a running interval keeps firing and the clock advances: the oldest
\* running poller gets a tick that finds more than 15000 ms elapsed, and the
\* oldest running countdown gets its next tick
TimersFire ==
    /\ WF_vars(\E found \in BOOLEAN : PollerTick(1, TimeoutMs + IntervalMs, found))
    /\ WF_vars(\E joinBtn \in BOOLEAN : CountdownTick(1, joinBtn))

\* one page of the PWA and every timer it starts
NextTimers ==
    \/ opens < MaxTimerOpens /\ OpenMeetingLink(PathA)
    \/ \E callControls \in BOOLEAN : PwaOnChanged(callControls)
    \/ \E callControls \in BOOLEAN : StartupCheck(callControls)
    \/ GetCallback
    \/ \E i \in 1..Len(pollers), now \in Times, found \in BOOLEAN :
          PollerTick(i, now, found)
    \/ \E i \in 1..Len(countdowns), joinBtn \in BOOLEAN : CountdownTick(i, joinBtn)
    \/ \E i \in 1..Len(countdowns) : CancelClick(i)
    \/ \E i \in 1..Len(countdowns) : HostRerender(i)

SpecTimers == InitTimers /\ [][NextTimers]_vars /\ TimersFire

\* the PWA in a meeting; links to other meetings are opened
InitAlerts == InitWith(NoPrefs, {Origin \o PathAAuth})

NextAlerts ==
    \/ \E path \in ConflictPaths : OpenMeetingLink(path)
    \/ \E k \in 1..Len(alerts) : SwitchClick(k)
    \/ \E k \in 1..Len(alerts) : DismissClick(k)
    \/ PageLoad
    \/ Coordination

SpecAlerts == InitAlerts /\ [][NextAlerts]_vars

\* weak fairness of the PWA listener's step, written out with the guard
\* of PwaOnChanged in place of ENABLED: the listener is not left waiting
\* on a queued event forever
PwaListenerRuns ==
    \/ []<>(inbox["pwa"] = <<>>)
    \/ []<><<\E callControls \in BOOLEAN : PwaOnChanged(callControls)>>_vars

\* a dispatched onChanged event reaches each listener, an assigned location
\* loads, the startup timeout and the storage read call back, and a running
\* poller gets a tick that finds more than 15000 ms elapsed
HandlersRun ==
    /\ PwaListenerRuns
    /\ WF_vars(TabOnChanged)
    /\ WF_vars(PageLoad)
    /\ WF_vars(\E callControls \in BOOLEAN : StartupCheck(callControls))
    /\ WF_vars(GetCallback)
    /\ WF_vars(\E found \in BOOLEAN : PollerTick(1, TimeoutMs + IntervalMs, found))

\* the tabs after the pending-meeting write of one opened link
NextPending ==
    \/ opens < MaxTimerOpens /\ \E path \in PendingPaths : OpenMeetingLink(path)
    \/ \E k \in 1..Len(alerts) : SwitchClick(k)
    \/ \E k \in 1..Len(alerts) : DismissClick(k)
    \/ PageLoad
    \/ Coordination

SpecPending == Init /\ [][NextPending]_vars /\ HandlersRun

----------------------------------------------------------------------------
(* Properties *)

\* the PWA listener ran on a pending meeting (not the sentinel)
HandledPending == last.op = "PwaOnChanged" /\ last.arg # Sentinel

\* the page the PWA listener ran in has a meeting code in its path
CurrentCode == MeetingCode(Pathname(href))

\* C1: a change notification whose new queryParams is the sentinel makes
\* neither listener navigate, add an alert or an overlay, start polling or
\* write any key of the store (so no close or decline signal).
C1_SentinelIgnored ==
    (last.op \in {"PwaOnChanged", "TabOnChanged"} /\ last.arg = Sentinel)
        => /\ ~last.navigated
           /\ ~last.alerted
           /\ ~last.polled
           /\ last.wrote = {}

\* C1 witness: the PWA listener has just handled the sentinel written by
\* its own reset on dismiss.
C1_Witness ==
    /\ last.op = "PwaOnChanged"
    /\ last.arg = Sentinel
    /\ store.googleMeetDeclinedUrl = 1

\* C2: on an active call (meeting code in the path, call controls found), a
\* pending meeting with a different code adds the conflict alert and does
\* not assign the location; the location is assigned only by a listener run
\* that is not on a call or by a click on 'Switch to meeting'.
C2_AlertInsteadOfNavigation ==
    /\ (HandledPending /\ last.saw /\ CurrentCode # NoCode
          /\ MeetingCode(last.arg) # CurrentCode)
         => (last.alerted /\ ~last.navigated)
    /\ last.navigated
         => \/ last.op = "SwitchClick"
            \/ last.op = "PwaOnChanged" /\ ~(last.saw /\ CurrentCode # NoCode)

\* C2 witness: the alert was added for another meeting while on a call.
C2_Witness ==
    /\ HandledPending /\ last.saw /\ CurrentCode # NoCode
    /\ MeetingCode(last.arg) # CurrentCode
    /\ Len(alerts) > 0

\* C3: at most one auto-join countdown is running in the page at any time.
C3_AtMostOneCountdown == Len(countdowns) <= 1

\* C4: a countdown whose 'Cancel Auto-Join' was clicked is stopped at once,
\* has clicked nothing and never clicks the join control afterwards.
C4_CancelledNeverJoins ==
    /\ \A i \in 1..Len(countdowns) : ~countdowns[i].cancelled
    /\ last.op = "CancelClick"
         => (~last.timer.active /\ last.timer.clicks = 0)
    /\ (last.op = "CountdownTick" /\ last.clicked = "join")
         => ~last.timer.cancelled

\* C4 witness: the countdown was cancelled after it had ticked and before
\* it reached zero.
C4_Witness ==
    /\ last.op = "CancelClick"
    /\ last.timer.countdown > 0
    /\ last.timer.countdown < last.timer.duration

\* C5: a mute poller clicks its control at most once and does not run
\* after the click, and it does not run after a tick that found more than
\* 15 s elapsed.
C5_MutePollerStops ==
    /\ \A i \in 1..Len(pollers) : pollers[i].clicks = 0
    /\ (last.op = "PollerTick" /\ last.timer.kind \in {"mic", "video"})
         => /\ last.timer.clicks = (IF last.saw THEN 1 ELSE 0)
            /\ last.timer.clicks = 1 => ~last.timer.active
            /\ last.timer.now > 15000 => ~last.timer.active

\* C5 witness: the microphone poller has just clicked its control.
C5_Witness ==
    /\ last.op = "PollerTick"
    /\ last.timer.kind = "mic"
    /\ last.clicked = "mic"
    /\ ~last.timer.active

\* the string the claim gives for a pending path
C6_Expected(path) ==
    IF \A i \in 1..Len(path) : path[i] # "?"
    THEN path \o <<"?","a","u","t","h","u","s","e","r","=","0">>
    ELSE IF Includes(path, <<"a","u","t","h","u","s","e","r","=">>)
         THEN path
         ELSE path \o <<"&","a","u","t","h","u","s","e","r","=","0">>

\* C6: the destination switchToNewCall computes for a pending path is
\* 'https://meet.google.com/' followed by the path with '?authuser=0'
\* appended (no '?'), '&authuser=0' appended ('?' but no 'authuser='), or
\* nothing appended: it is the href assigned, or the current href when none
\* is assigned.
C6_Destination ==
    (last.op \in {"PwaOnChanged", "SwitchClick"} /\ last.polled)
        => LET dest == <<"https://meet.google.com/">> \o C6_Expected(last.arg)
           IN IF last.navigated THEN navPending = dest ELSE href = dest

\* C6 witness: a path with a query and no authuser was navigated to.
C6_Witness ==
    /\ last.op = "PwaOnChanged"
    /\ last.navigated
    /\ last.arg = PathBQuery
    /\ navPending = Origin \o PathBQuery \o AmpAuthUser0

\* C7: when the current href equals the destination computed for the
\* pending meeting, handling it assigns no location.
C7_NoReload ==
    (last.op \in {"PwaOnChanged", "SwitchClick"} /\ last.polled
       /\ href = NewHref(last.arg))
        => ~last.navigated

\* C7 witness: a pending meeting whose destination is the current href was
\* handled off a call.
C7_Witness ==
    /\ HandledPending /\ last.polled
    /\ href = NewHref(last.arg)
    /\ opens = 2

\* the countdown of the step just taken reached zero
Completed == last.op = "CountdownTick" /\ last.timer.countdown <= 0

\* C8: a completed countdown of duration D with stored interval I has
\* spoken once at start, floor(D/I) times in between and once at completion.
C8_AnnouncementCount ==
    (Completed /\ store.ttsAnnouncementInterval # Undefined)
        => Len(last.timer.said)
             = 1 + (last.timer.duration \div store.ttsAnnouncementInterval[1]) + 1

\* C9: with countdownDuration 3 and ttsAnnouncementInterval 1 and a join
\* control at every tick, the completed countdown has spoken the four
\* texts in order and clicked the join control once.
C9_EndToEnd ==
    (Completed /\ last.timer.steady
       /\ store.countdownDuration = Num(3) /\ store.ttsAnnouncementInterval = Num(1))
        => /\ last.timer.said =
                <<<<"Auto-joining meeting in ", "3", " seconds">>,
                  <<"Auto-joining in ", "2", " seconds">>,
                  <<"Auto-joining in ", "1", " seconds">>,
                  <<"Joining meeting now">>>>
           /\ last.timer.clicks = 1

\* C10: on a call, a pending meeting whose meeting code is the current
\* page's makes the listener write googleMeetOpenedUrl and nothing else:
\* no location assigned, no alert, no polling.
C10_SameMeeting ==
    (HandledPending /\ last.saw /\ CurrentCode # NoCode
       /\ MeetingCode(last.arg) = CurrentCode)
        => /\ last.wrote = {"googleMeetOpenedUrl"}
           /\ ~last.navigated
           /\ ~last.alerted
           /\ ~last.polled

\* C10 witness: the same meeting arrived while on the call.
C10_Witness ==
    /\ HandledPending /\ last.saw
    /\ CurrentCode = <<"a","b","c","-","d","e","f","-","g","h","i">>
    /\ MeetingCode(last.arg) = CurrentCode
    /\ last.wrote = {"googleMeetOpenedUrl"}

\* C11: a click on 'Dismiss' writes queryParams = '__gmInitialState',
\* originatingTabId = '', source = '' and a new googleMeetDeclinedUrl and
\* no other key, removes the alert, assigns no location and starts no
\* polling; the PWA listener's run on the resulting sentinel notification
\* changes nothing either.
C11_DismissResets ==
    [][/\ last'.op = "DismissClick"
            => /\ store'.queryParams = <<"__gmInitialState">>
               /\ store'.originatingTabId = ""
               /\ store'.source = ""
               /\ store'.googleMeetDeclinedUrl # store.googleMeetDeclinedUrl
               /\ last'.wrote = {"queryParams", "originatingTabId", "source",
                                 "googleMeetDeclinedUrl"}
               /\ Len(alerts') = Len(alerts) - 1
               /\ ~last'.navigated /\ ~last'.polled
               /\ UNCHANGED <<href, navPending, pendingGets, pollers, countdowns>>
       /\ (last'.op = "PwaOnChanged" /\ last'.arg = Sentinel)
            => UNCHANGED <<store, href, navPending, pendingGets, pollers,
                           countdowns, alerts>>]_vars

\* C11 witness: the only alert of the page was dismissed.
C11_Witness ==
    /\ last.op = "DismissClick"
    /\ store.queryParams = Sentinel
    /\ store.googleMeetDeclinedUrl = 1
    /\ alerts = <<>>

\* C12: a click on 'Switch to meeting' writes shouldAutoJoinOverride true
\* and assigns the location, and the flag is still true for as long as that
\* navigation is pending, so that the page it loads reads it as true and its
\* join poller clicks without a countdown.
C12_OverrideForDestination ==
    /\ last.op = "SwitchClick"
         => /\ last.navigated
            /\ "shouldAutoJoinOverride" \in last.wrote
            /\ store.shouldAutoJoinOverride
    /\ (navPending # None /\ navFromAlert) => store.shouldAutoJoinOverride

\* C13: a pending meeting handled while not on a call (no meeting code in
\* the path, or no call controls found) writes googleMeetOpenedUrl and calls
\* disableVideoAndMicConfig(true), whether or not the location was
\* assigned, and adds no alert.
C13_NotOnCallProceeds ==
    (HandledPending /\ ~(last.saw /\ CurrentCode # NoCode))
        => /\ "googleMeetOpenedUrl" \in last.wrote
           /\ last.polled
           /\ pendingGets # <<>> /\ pendingGets[Len(pendingGets)] = TRUE
           /\ ~last.alerted
           /\ last.navigated = (href # NewHref(last.arg))

\* C13 witness: a pending meeting whose destination is the current href
\* was handled off a call, without navigation.
C13_Witness ==
    /\ HandledPending /\ ~last.saw
    /\ ~last.navigated
    /\ last.polled
    /\ last.wrote = {"googleMeetOpenedUrl"}

\* C14: a setting of shouldAutoJoinOverride causes at most one join click:
\* an override poller clicks the join control only while the flag is still
\* set, and clears it with that click (the flag is cleared by nothing else,
\* so a click made after the flag was cleared is a second click for the same
\* setting); a tick that does not find the control clicks nothing.
C14_OneClickPerOverride ==
    [][(last'.op = "PollerTick" /\ last'.timer.kind = "override")
          => IF last'.clicked = "join"
             THEN store.shouldAutoJoinOverride /\ ~store'.shouldAutoJoinOverride
             ELSE last'.clicked = "none" /\ store' = store]_vars

\* C15: the ordinary tab's listener appends one overlay exactly when the
\* notification carries a non-empty originatingTabId, and neither it nor a
\* click on 'Use this tab instead' writes a key of the store, sends a
\* notification or touches the location; the click removes one overlay.
C15_TabOnlyOverlay ==
    [][/\ last'.op = "TabOnChanged"
            => LET changes == Head(inbox["tab"])
                   becameSet == /\ "originatingTabId" \in DOMAIN changes
                                /\ changes.originatingTabId # ""
               IN /\ last'.alerted = becameSet
                  /\ becameSet => overlays' = overlays + 1
                  /\ overlays' <= overlays + 1
                  /\ last'.wrote = {} /\ ~last'.navigated
                  /\ UNCHANGED <<store, href, navPending>>
                  /\ inbox'["pwa"] = inbox["pwa"]
       /\ last'.op = "OverlayDismiss"
            => /\ overlays' = overlays - 1
               /\ last'.wrote = {} /\ ~last'.navigated
               /\ UNCHANGED <<store, inbox, href, navPending>>]_vars

\* C15 witness: the overlay a pending meeting added was dismissed by a
\* click while the pending meeting is still in the store.
C15_Witness ==
    /\ last.op = "OverlayDismiss"
    /\ overlays = 0
    /\ store.originatingTabId # ""

\* C16: once the ordinary tab's listener has handled a notification that
\* carries googleMeetDeclinedUrl, no overlay is left in the tab.
C16_DeclineClearsOverlays ==
    [][(last'.op = "TabOnChanged"
          /\ "googleMeetDeclinedUrl" \in DOMAIN Head(inbox["tab"]))
          => overlays' = 0]_vars

\* the keys of UserPreferences
C17_PrefKeys ==
    {"disableMic", "disableVideo", "autoJoin", "countdownDuration",
     "ttsAnnouncementInterval"}

\* C17: no step of the page script (or of the background script) has a
\* preference key among the keys it writes, and every preference keeps its
\* value across every step.
C17_PrefsUntouched ==
    [][/\ last'.wrote \cap C17_PrefKeys = {}
       /\ \A k \in C17_PrefKeys : store'[k] = store[k]]_vars

\* C17 witness: an override poller has clicked the join control and written
\* the store, after an alert click set the flag.
C17_Witness ==
    /\ last.op = "PollerTick"
    /\ last.clicked = "join"
    /\ last.wrote = {"shouldAutoJoinOverride"}
    /\ store.autoJoin = FALSE /\ store.countdownDuration = Undefined

\* C18: every interval the page script sets is cleared: from some point on
\* no poller and no countdown is running, whatever the ticks find in the
\* page.
C18_TimersStop == <>[](pollers = <<>> /\ countdowns = <<>>)

\* C18 witness: a join poller of a page on the landing path was stopped by
\* the timeout, a join button being in the page.
C18_Witness ==
    /\ last.op = "PollerTick"
    /\ last.timer.kind \in {"override", "autoJoin"}
    /\ Pathname(href) = Landing
    /\ last.saw
    /\ last.timer.now > TimeoutMs
    /\ ~last.timer.active

\* C19: the storage callback starts the countdown poller exactly when it
\* was called for joining and read autoJoin true and shouldAutoJoinOverride
\* false, and the override poller exactly when it was called for joining
\* and read the flag true; a countdown is started only by a tick of a
\* countdown poller that found a join button off the landing path, and a
\* tick of an override poller that found one clicks it and starts none.
C19_CountdownOnlyWithoutOverride ==
    [][/\ last'.op = "GetCallback"
            => LET started == SubSeq(pollers', Len(pollers) + 1, Len(pollers'))
                   kinds == {started[i].kind : i \in DOMAIN started}
                   joining == Head(pendingGets)
               IN /\ ("autoJoin" \in kinds)
                       = (joining /\ store.autoJoin /\ ~store.shouldAutoJoinOverride)
                  /\ ("override" \in kinds)
                       = (joining /\ store.shouldAutoJoinOverride)
       /\ Len(countdowns') > Len(countdowns)
            => /\ last'.op = "PollerTick"
               /\ last'.timer.kind = "autoJoin"
               /\ last'.saw
               /\ Pathname(href) # <<"l","a","n","d","i","n","g">>
               /\ last'.clicked = "none"
       /\ (last'.op = "PollerTick" /\ last'.timer.kind = "override")
            => /\ Len(countdowns') <= Len(countdowns)
               /\ (last'.saw /\ Pathname(href) # <<"l","a","n","d","i","n","g">>)
                    => last'.clicked = "join"]_vars

\* C19 witness: with autoJoin true, an override poller clicked the join
\* button and no countdown is in the page.
C19_Witness ==
    /\ last.op = "PollerTick"
    /\ last.timer.kind = "override"
    /\ last.clicked = "join"
    /\ store.autoJoin
    /\ countdowns = <<>>

\* C20: the tick that brings the countdown to zero speaks 'Joining meeting
\* now' last, leaves the interval cleared and the elements removed, and
\* clicks the join control exactly when one is found at that tick; a
\* countdown that can still tick is above zero and has clicked nothing.
C20_Completion ==
    /\ \A i \in 1..Len(countdowns) :
          /\ countdowns[i].active
          /\ countdowns[i].countdown > 0
          /\ countdowns[i].clicks = 0
    /\ Completed
         => /\ last.timer.said[Len(last.timer.said)] = <<"Joining meeting now">>
            /\ ~last.timer.active
            /\ ~last.timer.shown
            /\ last.timer.clicks = (IF last.saw THEN 1 ELSE 0)
            /\ last.clicked = (IF last.saw THEN "join" ELSE "none")

\* C20 witness: the countdown reached zero when no join control was in the
\* page, after ticks that had found one.
C20_Witness ==
    /\ Completed
    /\ ~last.saw
    /\ last.timer.shown = FALSE
    /\ last.timer.clicks = 0
    /\ last.timer.duration = 3

\* C21: a tick that leaves the countdown above zero, of a countdown whose
\* elements are not visible, at which no join button is found, aborts the
\* countdown: the interval is cleared, the elements are removed, nothing
\* is spoken or clicked by that tick, and the countdown is no longer among
\* the running ones (so it never speaks or clicks again).
C21_AbortWhenJoinGone ==
    [][\A i \in 1..Len(countdowns) :
          (/\ last'.op = "CountdownTick"
           /\ countdowns' = Running([countdowns EXCEPT ![i] = last'.timer])
           /\ countdowns[i].countdown > 1
           /\ ~countdowns[i].shown
           /\ ~last'.saw)
          => /\ ~last'.timer.active
             /\ ~last'.timer.shown
             /\ last'.timer.said = countdowns[i].said
             /\ last'.timer.clicks = 0
             /\ last'.clicked = "none"
             /\ Len(countdowns') = Len(countdowns) - 1]_vars

\* C21 witness: a countdown was aborted above zero by a tick that found no
\* join button.
C21_Witness ==
    /\ last.op = "CountdownTick"
    /\ ~last.saw
    /\ last.timer.countdown > 0
    /\ ~last.timer.active
    /\ ~last.timer.steady

\* C22: cleanup applied to a countdown that was already cleaned up (by a
\* cancel, an abort or the completion) changes nothing, and applied twice
\* to a running one it does what it does once; the cancel handler leaves
\* the countdown stopped, without a click, with 'Auto-join cancelled' as
\* its last spoken text, spoken once, and a cancelled countdown is not
\* among the running ones, so it speaks nothing more.
C22_CleanupIdempotent ==
    /\ \A i \in 1..Len(countdowns) :
          /\ cleanup(cleanup(countdowns[i])) = cleanup(countdowns[i])
          /\ cleanup(countdowns[i]).said = countdowns[i].said
          /\ cleanup(countdowns[i]).clicks = countdowns[i].clicks
          /\ ~countdowns[i].cancelled
    /\ (last.op \in {"CountdownTick", "CancelClick"} /\ ~last.timer.active)
         => cleanup(last.timer) = last.timer
    /\ last.op = "CancelClick"
         => LET said == last.timer.said
            IN /\ ~last.timer.active /\ ~last.timer.shown
               /\ last.timer.clicks = 0
               /\ said[Len(said)] = <<"Auto-join cancelled">>
               /\ Cardinality({k \in 1..Len(said) :
                                 said[k] = <<"Auto-join cancelled">>}) = 1

\* C22 witness: a countdown that had ticked was cancelled.
C22_Witness ==
    /\ last.op = "CancelClick"
    /\ last.timer.cancelled
    /\ last.timer.countdown = 2
    /\ Len(last.timer.said) = 2

\* C23: the startup check runs at most once in a page (its timer is not
\* set again before another document loads), and it calls
\* disableVideoAndMicConfig only if the page is not on a call (a meeting
\* code in the path and call controls in the page).
C23_StartupOnceOffCall ==
    /\ last.op = "StartupCheck" => ~startupTimer
    /\ (last.op = "StartupCheck" /\ last.saw /\ CurrentCode # NoCode)
         => ~last.polled

\* C24: a tick of a poller that fires more than 15000 ms after the poller
\* started does not run the poller's check, and so clicks nothing.
C24_NoCheckAfterTimeout ==
    (last.op = "PollerTick" /\ last.timer.now > 15000)
        => /\ last.clicked = "none"
           /\ last.timer.clicks = 0

\* C25: for a pending meeting that makes the PWA add the conflict alert, no
\* googleMeetOpenedUrl is written, neither by the listener run that adds the
\* alert nor by the click on 'Dismiss'.
C25_NoCloseWhenAlerting ==
    /\ (HandledPending /\ last.alerted)
         => "googleMeetOpenedUrl" \notin last.wrote
    /\ last.op = "DismissClick"
         => "googleMeetOpenedUrl" \notin last.wrote

\* C26: the response callback of a SPEAK_TEXT message, with or without an
\* error, sends no message and changes nothing of the countdown (its
\* remaining time, timer, elements, spoken texts, clicks) or of the page and
\* the store; and a tick or a cancel sends one message for each text it
\* speaks, at most one.
C26_RelayFailureIgnored ==
    [][/\ last'.op = "RelayResponse"
            => /\ \E i \in 1..Len(countdowns) :
                     countdowns' = [countdowns EXCEPT ![i].unanswered = @ - 1]
               /\ UNCHANGED <<store, inbox, href, navPending, alerts,
                              pendingGets, pollers>>
       /\ \A i \in 1..Len(countdowns) :
            (/\ last'.op \in {"CountdownTick", "CancelClick"}
             /\ countdowns' = Running([countdowns EXCEPT ![i] = last'.timer]))
            => LET spoken == Len(last'.timer.said) - Len(countdowns[i].said)
                   sent == last'.timer.unanswered - countdowns[i].unanswered
               IN sent = spoken /\ spoken \in {0, 1}]_vars

\* C26 witness: the relay failed for the start announcement of a countdown
\* that has ticked and is still running.
C26_Witness ==
    /\ last.op = "RelayResponse"
    /\ last.saw
    /\ last.timer.active
    /\ last.timer.countdown < last.timer.duration
    /\ last.timer.unanswered = 0

\* C27: once the announcement-interval input has been edited, whatever
\* the texts entered, the stored ttsAnnouncementInterval is an integer from
\* 1 to 30.
C27_IntervalInRange ==
    LET v == store.ttsAnnouncementInterval
    IN /\ v # <<>> => (Len(v) = 1 /\ v[1] \in 1..30)
       /\ last.op = "TtsIntervalChange" => v # <<>>

\* C27 witness: a text above the range was entered after one below it.
C27_Witness ==
    /\ last.op = "TtsIntervalChange"
    /\ last.arg = <<"9","9","9","9","9","9">>
    /\ store.ttsAnnouncementInterval = <<30>>
    /\ store.countdownDuration = <<0 - 5>>

\* C28: the storage callback starts the microphone poller exactly when
\* disableMic was read true and the camera poller exactly when disableVideo
\* was; a tick of one poller leaves every other poller as it was (it only
\* removes the one that ticked, if that one stopped); and a tick of a mute
\* poller that finds its control clicks that control, once, whatever the
\* other poller has done.
C28_MutePollersIndependent ==
    [][/\ last'.op = "GetCallback"
            => LET started == SubSeq(pollers', Len(pollers) + 1, Len(pollers'))
                   kinds == {started[i].kind : i \in DOMAIN started}
               IN /\ ("mic" \in kinds) = store.disableMic
                  /\ ("video" \in kinds) = store.disableVideo
       /\ last'.op = "PollerTick"
            => \E i \in 1..Len(pollers) :
                  /\ pollers[i].kind = last'.timer.kind
                  /\ pollers' = IF last'.timer.active THEN pollers
                                ELSE SubSeq(pollers, 1, i - 1)
                                     \o SubSeq(pollers, i + 1, Len(pollers))
       /\ (last'.op = "PollerTick" /\ last'.timer.kind = "mic" /\ last'.saw)
            => last'.clicked = "mic" /\ last'.timer.clicks = 1
       /\ (last'.op = "PollerTick" /\ last'.timer.kind = "video" /\ last'.saw)
            => last'.clicked = "camera" /\ last'.timer.clicks = 1]_vars

\* C28 witness: with both preferences set, the camera poller clicked its
\* control after the microphone poller started with it had stopped.
C28_Witness ==
    /\ last.op = "PollerTick"
    /\ last.timer.kind = "video"
    /\ last.clicked = "camera"
    /\ store.disableMic /\ store.disableVideo
    /\ opens = 0 /\ ~startupTimer /\ pendingGets = <<>>
    /\ pollers = <<>>

\* C29: shouldAutoJoinOverride goes from true to false only in a tick of
\* an override poller that clicks the join control; a tick of an override
\* poller that clicks nothing, the one that stops it on the timeout
\* included, leaves the flag as it was.
C29_OverrideClearedOnlyByJoin ==
    [][/\ (store.shouldAutoJoinOverride /\ ~store'.shouldAutoJoinOverride)
            => /\ last'.op = "PollerTick"
               /\ last'.timer.kind = "override"
               /\ last'.clicked = "join"
       /\ (/\ last'.op = "PollerTick"
           /\ last'.timer.kind = "override"
           /\ last'.clicked = "none")
            => store'.shouldAutoJoinOverride = store.shouldAutoJoinOverride]_vars

\* C29 witness: an override poller was stopped by the timeout without a
\* click, and the flag is still true.
C29_Witness ==
    /\ last.op = "PollerTick"
    /\ last.timer.kind = "override"
    /\ ~last.timer.active
    /\ last.clicked = "none"
    /\ store.shouldAutoJoinOverride

\* the ticks a countdown has performed
C30_Ticks(cd) == cd.duration - cd.countdown

\* max(D, 1)
C30_MaxTicks(D) == IF D > 1 THEN D ELSE 1

\* the duration the claim gives for a stored countdownDuration
C30_Effective(stored) ==
    IF stored = <<>> \/ stored = NaN \/ stored = <<0>> THEN 10 ELSE stored[1]

\* C30: a running countdown of duration D has performed fewer than
\* max(D, 1) ticks, and the tick that makes it max(D, 1) leaves it stopped;
\* a countdown started with a duration of 0 or less is stopped by its first
\* tick; and the countdown poller and the countdown it starts have the
\* stored countdownDuration, or 10 if that is 0, missing or NaN.
C30_CountdownTerminates ==
    /\ \A i \in 1..Len(countdowns) :
          /\ C30_Ticks(countdowns[i]) < C30_MaxTicks(countdowns[i].duration)
          /\ countdowns[i].duration = C30_Effective(store.countdownDuration)
    /\ \A i \in 1..Len(pollers) :
          pollers[i].kind = "autoJoin"
            => pollers[i].duration = C30_Effective(store.countdownDuration)
    /\ last.op = "CountdownTick"
         => /\ C30_Ticks(last.timer) <= C30_MaxTicks(last.timer.duration)
            /\ C30_Ticks(last.timer) = C30_MaxTicks(last.timer.duration)
                 => ~last.timer.active
    /\ \A D \in (0 - 2)..0, joinBtn \in BOOLEAN :
          ~CountdownCallback(NewCountdown(D), joinBtn).active

\* C30 witness: a countdown started with the stored duration -2 was
\* stopped by its first tick.
C30_Witness ==
    /\ last.op = "CountdownTick"
    /\ store.countdownDuration = <<0 - 2>>
    /\ last.timer.duration = 0 - 2
    /\ last.timer.countdown = 0 - 3
    /\ ~last.timer.active

\* the `changes` of the onChanged event of the write a handler made from
\* the current state: the new value of every written key that changed
C31_ChangesOf(w) ==
    [k \in {x \in w.wrote : w.store[x] # store[x]} |-> w.store[k]]

\* after that write, neither listener does anything on its event
C31_Silent(w) ==
    LET after == [World EXCEPT !.store = w.store]
    IN /\ \A callControls \in BOOLEAN :
             PwaListener(after, C31_ChangesOf(w), callControls) = after
       /\ TabListener(overlays, C31_ChangesOf(w)) <= overlays

C31_HandlersSilent ==
    /\ C31_Silent(closeOriginalTab(World))
    /\ C31_Silent(ignoreNewMeeting(World))
    /\ C31_Silent(StorageSet(World, [shouldAutoJoinOverride |-> TRUE]))
    /\ (last.op = "PwaOnChanged"
          /\ (last.wrote # {} \/ last.navigated \/ last.alerted \/ last.polled))
         => last.arg \in PendingPaths
    /\ last.op = "TabOnChanged" => last.wrote = {}

\* no event is waiting for a listener, no assigned location is loading,
\* and no startup timeout, storage callback or poller is left to run
C31_Quiescent ==
    /\ inbox = [t \in Tabs |-> <<>>]
    /\ navPending = None
    /\ ~startupTimer
    /\ pendingGets = <<>>
    /\ pollers = <<>>

\* C31: the event of a write made by a PWA handler (close timestamp,
\* decline timestamp with the sentinel reset, override flag) makes neither
\* listener write, navigate, alert or poll: the PWA listener acts only on
\* a pending meeting written by the background script, and the ordinary
\* tab's listener never writes.  After one pending-meeting write and any
\* clicks on its alert, from some point on no event, navigation, callback
\* or poller is pending.
C31_NoFeedbackLoop == [](C31_HandlersSilent) /\ <>[](C31_Quiescent)

\* C31 witness: the alert of a pending meeting was dismissed, both
\* listeners have handled the event of the reset, and nothing is pending.
C31_Witness ==
    /\ last.op \in {"PwaOnChanged", "TabOnChanged"}
    /\ last.arg = Sentinel
    /\ store.googleMeetDeclinedUrl = 1
    /\ store.googleMeetOpenedUrl = 1
    /\ alerts = <<>>
    /\ C31_Quiescent

\* C32: a click on 'Switch to meeting' removes one alert and assigns the
\* location built from the pending meeting of the notification that created
\* that alert, whatever queryParams holds in the store at the click.
C32_SwitchDestination ==
    [][last'.op = "SwitchClick"
         => \E k \in 1..Len(alerts) :
               /\ alerts' = RemoveAt(alerts, k)
               /\ last'.navigated
               /\ navPending' = NewHref(alerts[k])]_vars

\* C32 witness: two pending meetings each left an alert in the page, and
\* the switch button of the older alert was clicked: the location assigned
\* is that of the older meeting while the store holds the newer one, whose
\* alert is still in the page.
C32_Witness ==
    /\ last.op = "SwitchClick"
    /\ navPending = NewHref(last.arg)
    /\ store.queryParams \in ConflictPaths \ {last.arg}
    /\ alerts = <<store.queryParams>>

====
